---- MODULE Spec2Model ----
(***************************************************************************)
(* Model of reserve.py: a lock-file based GPU reservation tool.  Several   *)
(* independent invocations of the script run on one host; each scans the   *)
(* devices, flock()s the lock files of the devices it selected, runs its   *)
(* workload under the locks, and a privileged caller may preempt another   *)
(* occupant when nothing is free.                                          *)
(*                                                                         *)
(* Processes of the model: the invocations (named i), the workload spawned *)
(* by invocation i (named NumInv + i) and GPU processes started outside    *)
(* the scheduler (named 2*NumInv + e).  The names stand for the pids; the  *)
(* numeric order of the pids, in which lsof and pgrep print them, is the   *)
(* input by_pid, fixed when two scripts first have one lock file open.     *)
(* Every subprocess the script waits for (nvidia-smi, ps, lsof, pgrep,     *)
(* kill, kill -0) reads or changes the host in a step of its own, so that  *)
(* the other processes move between any two of them; the device list of    *)
(* line 176 never changes and is read with the process list of line 177.   *)
(* loc[i] holds the Python variables of invocation i; they are dropped     *)
(* when the function that owns them returns or the process ends.           *)
(* Environment: an invocation or an external GPU job leads its own process *)
(* group (started from an interactive shell) or stays in the group of the  *)
(* process that started it (started from a script), which is an input      *)
(* fixed when it is first looked at; a workload inherits the group of its  *)
(* invocation; no pid is used twice; a signalled script is reaped at once  *)
(* by its parent, an exited workload stays a zombie until its script       *)
(* collects it.  The start time ps reports for a pid is an input of the    *)
(* scan, drawn from 1..MaxTime when it is first looked up.                 *)
(* Spec runs two invocations of alice and bob with any --num-gpus in       *)
(* 1..MaxNumGpus, alice with any --large-mem and bob without, next to an   *)
(* external GPU job of bob.  SpecRoot runs an invocation of root next to   *)
(* one of bob, one device of any class each.  SpecThree runs three         *)
(* invocations that each ask for one standard device, the one of alice     *)
(* after the scans of the others, with workloads that run on.              *)
(***************************************************************************)
EXTENDS Integers, Sequences, FiniteSets, TLC

\* ---------------------------------------------------------------- bounds
NumInv == 3        \* invocations of reserve.py
NumPair == 2       \* invocations that run in Spec and SpecRoot
NumDev == 3        \* GPUs of the host
NumExt == 1        \* GPU processes started without the scheduler
MaxNumGpus == 2    \* largest --num-gpus drawn
MaxTime == 2       \* ps start times are drawn from 1..MaxTime
MaxWait == 1       \* --preempt-wait-time of every invocation (seconds)

\* ------------------------------------------------------ program constants
MINIMUM_PRIVELIGED_JOBS == 1
MINIMUM_NON_PRIVELIGED_JOBS == 0
SIGTERM == 15
None == 0

Inv == 1..NumInv
Pair == 1..NumPair
Devices == 1..NumDev
Ext == 1..NumExt
Users == {"alice", "bob", "carol", "root"}

InvPid(i) == i
WPid(i) == NumInv + i
EPid(e) == 2 * NumInv + e
Pids == 1..(2 * NumInv + NumExt)

\* the process that started p, whose process group p stays in when it does
\* not lead one; it is none of the processes of the model
ParentOf(p) == 2 * NumInv + NumExt + p

\* nvidia-smi names: the last device of the host is a large-memory one
gpu_name(d) == IF d = NumDev THEN "Quadro RTX 8000" ELSE "TITAN X"

VARIABLES
    privileged_users,    \* content of the privileged_users file
    user,                \* pid -> the user that runs the process
    by_pid,              \* the processes in ascending order of their pids,
                         \* <<>> as long as no query depends on the order
    leads,               \* pid of a script or external job -> "leader"
                         \* of a process group of its own, "member" of
                         \* the group it was started in, "?" not looked at
    ext,                 \* external GPU process -> "idle", "alive", "ended"
    ext_dev,             \* external GPU process -> device it computes on
    pc,                  \* invocation -> position in the script
    loc,                 \* invocation -> its Python variables
    stack,               \* invocation -> files opened in the ExitStack
    held,                \* invocation -> devices whose flock it holds
    cuda,                \* invocation -> CUDA_VISIBLE_DEVICES of the workload
    wl,                  \* invocation -> "none", "running", "exited"
    wstatus,             \* invocation -> exit status of its workload, not
                         \* yet collected by process.wait()
    exit_status          \* invocation -> exit status of the script

envvars == <<privileged_users, user>>
extvars == <<ext, ext_dev>>
filevars == <<stack, held>>
wlvars == <<cuda, wl, wstatus>>
vars == <<envvars, by_pid, leads, extvars, pc, loc, filevars, wlvars, exit_status>>

NoProc == [pid |-> None, user |-> "", gpu_index |-> 0, start_time |-> 0,
           preemption_candidate |-> FALSE]

\* the variables of a script that is not running
NoLocals ==
    [large_mem |-> FALSE, num_gpus |-> 1, calls |-> 0,
     gpu_processes |-> [d \in Devices |-> <<>>],
     process_users |-> <<>>,
     all_start_times |-> <<>>,
     gpu |-> 0,          \* the device the loop of try_launch is at
     available_gpu_locks |-> <<>>, reserved |-> <<>>,
     files_to_lock |-> <<>>, blocking_file |-> <<>>,
     victim |-> NoProc, to_check |-> <<>>,
     probed |-> 0,       \* pids of to_check probed in the running check
     running |-> <<>>,   \* the list the running check has built so far
     still_running |-> <<>>,
     wait_time |-> 0,
     prompts |-> 0,      \* confirmation prompts shown so far
     kills |-> 0]        \* signals sent to a victim so far

\* the arguments and the call count survive the return of try_launch
MainLocals(l) ==
    [NoLocals EXCEPT !.large_mem = l.large_mem, !.num_gpus = l.num_gpus,
                     !.calls = l.calls, !.prompts = l.prompts,
                     !.kills = l.kills]

\* ------------------------------------------------------------- sequences
Range(s) == {s[k] : k \in 1..Len(s)}

\* s[:n] of Python for n >= 0
Take(s, n) == SubSeq(s, 1, IF n < Len(s) THEN n ELSE Len(s))

\* [x for x in s if x in keep]
RECURSIVE Filter(_, _)
Filter(s, keep) ==
    IF s = <<>> THEN <<>>
    ELSE IF s[1] \in keep THEN <<s[1]>> \o Filter(Tail(s), keep)
         ELSE Filter(Tail(s), keep)

\* the orders a set can be listed in
Orders(S) == {s \in [1..Cardinality(S) -> S] : Range(s) = S}

\* the pids in ascending order when those of the scripts are in the order
\* given: a workload is started after every script, an external job last
PidOrder(scripts) ==
    scripts \o [k \in 1..NumInv |-> WPid(scripts[k])]
            \o [e \in Ext |-> EPid(e)]

\* the orders the pids of the processes may be in
PidOrders == {PidOrder(scripts) : scripts \in Orders(Inv)}

\* the processes of a set in ascending order of their pids, as lsof and
\* pgrep print them.  As long as the order of the scripts is not fixed, the
\* set holds a single script at most
ByPid(S) ==
    Filter(IF by_pid = <<>> THEN PidOrder([k \in Inv |-> k]) ELSE by_pid, S)

\* ------------------------------------------------------------- processes
\* the lock file of a device and the file object open() returns for it
Fn(d) == <<"gpu", d>>
FileObj(d) == <<"file", d>>
DevOf(f) == f[2]

Dead == {"idle", "done", "end", "error", "killed"}

InvAlive(i) == pc[i] \notin Dead

\* the process runs
Alive(p) ==
    IF p \in Inv THEN InvAlive(p)
    ELSE IF p - NumInv \in Inv THEN wl[p - NumInv] = "running"
    ELSE ext[p - 2 * NumInv] = "alive"

\* the process has exited and its parent has not collected it: a workload
\* between its exit and the return of process.wait() in its script
Zombie(p) ==
    /\ p - NumInv \in Inv
    /\ wl[p - NumInv] = "exited"
    /\ pc[p - NumInv] = "wait"

\* the processes ps, pgrep and kill find: the running ones and the zombies
Listed == {p \in Pids : Alive(p) \/ Zombie(p)}

\* lines 77-82: kill -0 pid, run by the caller without sudo, succeeds when
\* the pid exists and the caller may signal it: root may signal every
\* process, any other user only its own
process_is_running(caller, p) ==
    /\ p \in Listed
    /\ user[caller] = "root" \/ user[caller] = user[p]

\* process group id under the groups g: a script or external job leads its
\* own group or stays in the group it was started in; a workload inherits
\* the group of its script
Pgid(g, p) ==
    LET q == IF p - NumInv \in Inv THEN p - NumInv ELSE p
    IN IF g[q] = "leader" THEN q ELSE ParentOf(q)

\* how the script or external job q was started is an input, fixed when a
\* group query or a group signal first depends on it
Looked(q) ==
    IF q - NumInv \in Inv \/ leads[q] # "?" THEN {leads}
    ELSE {[leads EXCEPT ![q] = "leader"], [leads EXCEPT ![q] = "member"]}

\* the groups after a step that started from groups g: what is known of a
\* script is dropped when it and its workload are gone, and so for an
\* external job
GroupsAfter(g) ==
    leads' = [q \in Pids |->
                IF q \in Inv
                THEN IF pc'[q] \in Dead /\ wl'[q] # "running" THEN "?" ELSE g[q]
                ELSE IF q - NumInv \in Inv THEN "?"
                ELSE IF ext'[q - 2 * NumInv] # "alive" THEN "?" ELSE g[q]]

\* pids nvidia-smi reports on a device: the running workloads that see it and
\* the external processes computing on it
GpuPids(d) ==
    {WPid(i) : i \in {j \in Inv : wl[j] = "running" /\ d \in Range(cuda[j])}}
    \cup {EPid(e) : e \in {x \in Ext : ext[x] = "alive" /\ ext_dev[x] = d}}

\* lines 40-49: what nvidia-smi --query-compute-apps may list, device by
\* device; the order of the processes of one device is up to nvidia-smi
get_gpu_processes ==
    {g \in [Devices -> UNION {Orders(GpuPids(d)) : d \in Devices}] :
        \A d \in Devices : g[d] \in Orders(GpuPids(d))}

\* --------------------------------------------------------------- scanning
Has8000(name) == name = "Quadro RTX 8000"

\* line 188: the device is of the class the caller asked for
can_run(i, d) ==
    \/ loc[i].large_mem /\ Has8000(gpu_name(d))
    \/ ~loc[i].large_mem /\ ~Has8000(gpu_name(d))

\* lsof -t: the processes that have the lock file open, locked or not
Accessing(d) == {InvPid(j) : j \in {x \in Inv : Fn(d) \in Range(stack[x])}}

\* lines 114-123: the first pid lsof prints
get_locking_pid(d) ==
    LET result_list == ByPid(Accessing(d))
    IN IF Len(result_list) = 0 THEN None ELSE result_list[1]

\* fault: lines 192-196 left out, only the lock decides
used_by_locker(i, d) == get_locking_pid(d)

\* lines 191-196: the occupant recorded for a device
UsedBy(i, d) ==
    LET locker == get_locking_pid(d)
    IN IF locker = None /\ Len(loc[i].gpu_processes[d]) > 0
       THEN loc[i].gpu_processes[d][1]
       ELSE locker

\* lines 194 and 202-206 look pids up in the ps snapshots: a pid that is
\* missing raises KeyError
ScanKeyError(i, d) ==
    \/ /\ get_locking_pid(d) = None
       /\ \E p \in Range(loc[i].gpu_processes[d]) :
             p \notin DOMAIN loc[i].process_users
    \/ /\ UsedBy(i, d) # None
       /\ \/ UsedBy(i, d) \notin DOMAIN loc[i].process_users
          \/ UsedBy(i, d) \notin DOMAIN loc[i].all_start_times

\* line 205: what all_start_times may hold for the occupant of device d.
\* The value ps reported is an input; it is fixed when the loop first looks
\* it up, so that two records of one pid agree
StartTimes(i, d) ==
    IF loc[i].all_start_times[UsedBy(i, d)] # 0
    THEN {loc[i].all_start_times}
    ELSE {[loc[i].all_start_times EXCEPT ![UsedBy(i, d)] = t] : t \in 1..MaxTime}

\* fault: every occupant is flagged as a preemption candidate
proc_info_any_class(i, d, all_start_times) ==
    [pid |-> UsedBy(i, d),
     user |-> loc[i].process_users[UsedBy(i, d)],
     gpu_index |-> d,
     start_time |-> all_start_times[UsedBy(i, d)],
     preemption_candidate |-> TRUE]

\* lines 202-208
ProcInfo(i, d, all_start_times) ==
    [pid |-> UsedBy(i, d),
     user |-> loc[i].process_users[UsedBy(i, d)],
     gpu_index |-> d,
     start_time |-> all_start_times[UsedBy(i, d)],
     preemption_candidate |-> can_run(i, d)]

\* lines 198-200: the device goes to available_gpu_locks
IsAvailable(i, d) == UsedBy(i, d) = None /\ can_run(i, d)

\* the script ends: its variables are gone
Exit(i, how, status) ==
    /\ pc' = [pc EXCEPT ![i] = how]
    /\ exit_status' = [exit_status EXCEPT ![i] = status]
    /\ loc' = [loc EXCEPT ![i] = NoLocals]

\* ------------------------------------------------------- preemption policy
\* keys of reserved_processes_by_user in insertion order: the owners in the
\* order of their first occupant
RECURSIVE Owners(_)
Owners(res) ==
    IF res = <<>> THEN <<>>
    ELSE <<res[1].user>> \o Filter(Owners(Tail(res)), Users \ {res[1].user})

\* reserved_processes_by_user[u]
RECURSIVE ProcsOf(_, _)
ProcsOf(res, u) ==
    IF res = <<>> THEN <<>>
    ELSE IF res[1].user = u THEN <<res[1]>> \o ProcsOf(Tail(res), u)
         ELSE ProcsOf(Tail(res), u)

\* lines 257-259: random.shuffle yields any order of the items
Shuffles(owners) ==
    {s \in [1..Len(owners) -> Range(owners)] : Range(s) = Range(owners)}

\* fault: the groups are walked in the shuffled order, not sorted
walk_shuffled(res, owners) == owners

\* line 260: sorted(..., key=len of the group, reverse=True); the sort is
\* stable, so groups of equal size keep their shuffled order
RECURSIVE SortedBySize(_, _)
SortedBySize(res, owners) ==
    IF owners = <<>> THEN <<>>
    ELSE LET m == CHOOSE n \in {Len(ProcsOf(res, u)) : u \in Range(owners)} :
                      \A u \in Range(owners) : Len(ProcsOf(res, u)) <= n
             big == {u \in Range(owners) : Len(ProcsOf(res, u)) = m}
         IN Filter(owners, big)
            \o SortedBySize(res, Filter(owners, Range(owners) \ big))

\* line 261
RECURSIVE preemption_candidates(_)
preemption_candidates(procs) ==
    IF procs = <<>> THEN <<>>
    ELSE IF procs[1].preemption_candidate
         THEN <<procs[1]>> \o preemption_candidates(Tail(procs))
         ELSE preemption_candidates(Tail(procs))

\* fault: >= in the place of > in lines 262-263
at_minimum(u, procs) ==
    \/ u \in privileged_users /\ Len(procs) >= MINIMUM_PRIVELIGED_JOBS
    \/ u \notin privileged_users /\ Len(procs) >= MINIMUM_NON_PRIVELIGED_JOBS

\* lines 262-263
over_minimum(u, procs) ==
    \/ u \in privileged_users /\ Len(procs) > MINIMUM_PRIVELIGED_JOBS
    \/ u \notin privileged_users /\ Len(procs) > MINIMUM_NON_PRIVELIGED_JOBS

\* line 264
Qualifies(res, u) ==
    /\ preemption_candidates(ProcsOf(res, u)) # <<>>
    /\ over_minimum(u, ProcsOf(res, u))

\* lines 260-264 and 281: the first group of the order that qualifies, or ""
RECURSIVE user_to_boot(_, _)
user_to_boot(res, order) ==
    IF order = <<>> THEN ""
    ELSE IF Qualifies(res, order[1]) THEN order[1]
         ELSE user_to_boot(res, Tail(order))

\* fault: min in the place of max in line 266
oldest_process(cands) ==
    LET k == CHOOSE a \in 1..Len(cands) :
                 /\ \A b \in 1..Len(cands) : cands[a].start_time <= cands[b].start_time
                 /\ \A b \in 1..(a - 1) : cands[a].start_time < cands[b].start_time
    IN cands[k]

\* line 266: max(..., key=start_time) returns the first of the newest
process_to_preempt(cands) ==
    LET k == CHOOSE a \in 1..Len(cands) :
                 /\ \A b \in 1..Len(cands) : cands[b].start_time <= cands[a].start_time
                 /\ \A b \in 1..(a - 1) : cands[b].start_time < cands[a].start_time
    IN cands[k]

\* fault: the test args.num_gpus == 1 left out of line 256
may_preempt_any_size(i, l) ==
    /\ user[InvPid(i)] \in privileged_users
    /\ user[InvPid(i)] \notin Range(Owners(l.reserved))

\* line 256: the keys of user_reservation_counts_usable are all owners found
may_preempt(i, l) ==
    /\ user[InvPid(i)] \in privileged_users
    /\ user[InvPid(i)] \notin Range(Owners(l.reserved))
    /\ l.num_gpus = 1

\* lines 239-269 and 281, with l the variables of the script: main goes from
\* the return of try_launch to the prompt of confirm, or to its end
Policy(i, l) ==
    IF may_preempt(i, l)
    THEN \E shuffled \in Shuffles(Owners(l.reserved)) :
           LET u == user_to_boot(l.reserved, SortedBySize(l.reserved, shuffled))
           IN IF u = ""
              THEN Exit(i, "end", 0)
              ELSE /\ loc' = [loc EXCEPT ![i] =
                         [MainLocals(l) EXCEPT
                            !.reserved = l.reserved,
                            !.victim = process_to_preempt(
                                preemption_candidates(ProcsOf(l.reserved, u))),
                            !.prompts = @ + 1]]
                   /\ pc' = [pc EXCEPT ![i] = "confirm"]
                   /\ UNCHANGED exit_status
    ELSE Exit(i, "end", 0)

\* line 210: the loop test of try_launch
Enough(l, av) == Len(av) >= l.num_gpus

\* fault: the policy follows every return of try_launch, also that of the
\* call of line 276
decide_again(i, l, av) ==
    IF Enough(l, av)
    THEN /\ loc' = [loc EXCEPT ![i] =
                       [l EXCEPT !.available_gpu_locks = av,
                                 !.files_to_lock = Take(av, l.num_gpus),
                                 !.blocking_file = <<>>]]
         /\ cuda' = [cuda EXCEPT ![i] = [k \in 1..l.num_gpus |-> DevOf(av[k])]]
         /\ pc' = [pc EXCEPT ![i] = "lock"]
         /\ UNCHANGED exit_status
    ELSE /\ UNCHANGED cuda
         /\ Policy(i, l)

\* lines 210-228 from the loop test on, with l the variables of the script
\* and av its available_gpu_locks: either the next lock_and_run is entered,
\* or try_launch returns reserved_processes_by_user.  The first call returns
\* to line 239, where the preemption policy follows; the call of line 276
\* returns to the break of line 281, where main ends
Decide(i, l, av) ==
    IF Enough(l, av)
    THEN /\ loc' = [loc EXCEPT ![i] =
                       [l EXCEPT !.available_gpu_locks = av,
                                 !.files_to_lock = Take(av, l.num_gpus),
                                 !.blocking_file = <<>>]]
         /\ cuda' = [cuda EXCEPT ![i] = [k \in 1..l.num_gpus |-> DevOf(av[k])]]
         /\ pc' = [pc EXCEPT ![i] = "lock"]
         /\ UNCHANGED exit_status
    ELSE /\ UNCHANGED cuda
         /\ IF l.calls = 1 THEN Policy(i, l) ELSE Exit(i, "end", 0)

\* ----------------------------------------------------------------- Init
\* the users of the processes: callers[i] runs invocation i and its
\* workload, ext_user the GPU jobs outside the scheduler
UsersOf(callers, ext_user) ==
    [p \in Pids |-> IF p \in Inv THEN callers[p]
                    ELSE IF p - NumInv \in Inv THEN callers[p - NumInv]
                    ELSE ext_user]

\* the state with no process started, for a privileged_users file of the set
\* files and callers of the set users
InitWith(files, users) ==
    /\ privileged_users \in files
    /\ user \in users
    /\ by_pid = <<>>
    /\ leads = [p \in Pids |-> "?"]
    /\ ext = [e \in Ext |-> "idle"]
    /\ ext_dev = [e \in Ext |-> 1]
    /\ pc = [i \in Inv |-> "idle"]
    /\ loc = [i \in Inv |-> NoLocals]
    /\ stack = [i \in Inv |-> <<>>]
    /\ held = [i \in Inv |-> {}]
    /\ cuda = [i \in Inv |-> <<>>]
    /\ wl = [i \in Inv |-> "none"]
    /\ wstatus = [i \in Inv |-> -1]
    /\ exit_status = [i \in Inv |-> -1]

\* alice, bob and carol run the scripts, bob the jobs outside the scheduler;
\* alice is privileged, bob may be
Init ==
    InitWith({{"alice"}, {"alice", "bob"}},
             {UsersOf(<<"alice", "bob", "carol">>, "bob")})

\* root, privileged, runs the first script
InitRoot ==
    InitWith({{"root"}, {"root", "bob"}},
             {UsersOf(<<"root", "bob", "carol">>, "bob")})

\* ------------------------------------------------------------ environment
\* a process outside the scheduler starts computing on a device of the set
\* given
ExtStartOn(e, devices) ==
    /\ ext[e] = "idle"
    /\ \E d \in devices :
        /\ ext' = [ext EXCEPT ![e] = "alive"]
        /\ ext_dev' = [ext_dev EXCEPT ![e] = d]
    /\ UNCHANGED <<envvars, by_pid, leads, pc, loc, filevars, wlvars, exit_status>>

\* on any device
ExtStart(e) == ExtStartOn(e, Devices)

\* on the large-memory device
ExtStartLarge(e) == ExtStartOn(e, {NumDev})

\* it ends, by itself or after a signal; its pid is not used again
ExtExit(e) ==
    /\ ext[e] = "alive"
    /\ ext' = [ext EXCEPT ![e] = "ended"]
    /\ ext_dev' = [ext_dev EXCEPT ![e] = 1]
    /\ UNCHANGED <<envvars, by_pid, pc, loc, filevars, wlvars, exit_status>>
    /\ GroupsAfter(leads)

\* ------------------------------------------------------------ invocation
\* the script is started with --large-mem from classes and --num-gpus from
\* counts: lines 231-236 and the entry of try_launch
StartWith(i, classes, counts) ==
    /\ pc[i] = "idle"
    /\ \E lm \in classes, n \in counts :
        loc' = [loc EXCEPT ![i] =
                   [NoLocals EXCEPT !.large_mem = lm, !.num_gpus = n,
                                    !.calls = 1]]
    /\ pc' = [pc EXCEPT ![i] = "scan"]
    /\ UNCHANGED <<envvars, by_pid, leads, extvars, filevars, wlvars, exit_status>>

\* the first script asks for devices of any class, the others for standard
\* ones; any count up to MaxNumGpus
Start(i) == StartWith(i, IF i = 1 THEN BOOLEAN ELSE {FALSE}, 1..MaxNumGpus)

\* one device of any class
StartSingle(i) == StartWith(i, BOOLEAN, {1})

\* one device of the standard class
StartOne(i) == StartWith(i, {FALSE}, {1})

\* lines 176-208 of try_launch: the script is between its start and the end
\* of the loop over the devices
Scanning(i) == pc[i] \in {"scan", "users", "starts", "classify"}

\* one device of the standard class, asked for when the other scripts have
\* been started and have left their scans
StartLate(i) ==
    /\ \A j \in Inv \ {i} : pc[j] # "idle" /\ ~Scanning(j)
    /\ StartOne(i)

\* lines 176-177: the nvidia-smi snapshots
SnapshotGpu(i) ==
    /\ pc[i] = "scan"
    /\ \E g \in get_gpu_processes :
         loc' = [loc EXCEPT ![i].gpu_processes = g]
    /\ pc' = [pc EXCEPT ![i] = "users"]
    /\ UNCHANGED <<envvars, by_pid, leads, extvars, filevars, wlvars, exit_status>>

\* line 178: the ps snapshot of the owners
SnapshotUsers(i) ==
    /\ pc[i] = "users"
    /\ loc' = [loc EXCEPT ![i].process_users = [p \in Listed |-> user[p]]]
    /\ pc' = [pc EXCEPT ![i] = "starts"]
    /\ UNCHANGED <<envvars, by_pid, leads, extvars, filevars, wlvars, exit_status>>

\* line 181: the ps snapshot of the start times; 0 stands for a value the
\* loop has not looked at
SnapshotStarts(i) ==
    /\ pc[i] = "starts"
    /\ loc' = [loc EXCEPT ![i].all_start_times = [p \in Listed |-> 0],
                          ![i].gpu = 1]
    /\ pc' = [pc EXCEPT ![i] = "classify"]
    /\ UNCHANGED <<envvars, by_pid, leads, extvars, filevars, wlvars, exit_status>>

\* lines 187-210: one round of the loop, with the lsof query of its device;
\* after the last device the first loop test of line 210 follows
ClassifyDevice(i) ==
    /\ pc[i] = "classify"
    /\ LET d == loc[i].gpu
       IN IF ScanKeyError(i, d)
          THEN Exit(i, "error", 1) /\ UNCHANGED cuda
          ELSE IF UsedBy(i, d) = None
          THEN LET l == [loc[i] EXCEPT
                           !.available_gpu_locks =
                               IF IsAvailable(i, d) THEN Append(@, Fn(d)) ELSE @,
                           !.gpu = d + 1]
               IN IF d < NumDev
                  THEN loc' = [loc EXCEPT ![i] = l] /\ UNCHANGED <<pc, cuda, exit_status>>
                  ELSE Decide(i, [MainLocals(l) EXCEPT !.reserved = l.reserved],
                              l.available_gpu_locks)
          ELSE \E all_start_times \in StartTimes(i, d) :
               LET l == [loc[i] EXCEPT
                           !.all_start_times = all_start_times,
                           !.reserved = Append(@, ProcInfo(i, d, all_start_times)),
                           !.gpu = d + 1]
               IN IF d < NumDev
                  THEN loc' = [loc EXCEPT ![i] = l] /\ UNCHANGED <<pc, cuda, exit_status>>
                  ELSE Decide(i, [MainLocals(l) EXCEPT !.reserved = l.reserved],
                              l.available_gpu_locks)
    /\ UNCHANGED <<envvars, by_pid, extvars, filevars, wl, wstatus>>
    /\ GroupsAfter(leads)

\* ------------------------------------------------------------ lock_and_run
\* fault: a shared lock (LOCK_SH) is granted whatever the others hold
flock_shared(i, d) == TRUE

\* line 130: flock(LOCK_EX | LOCK_NB) succeeds when no other open file
\* holds a lock on the device's lock file
FlockOk(i, d) == \A j \in Inv \ {i} : d \notin held[j]

\* lines 127-141: open the next file of the list and try to lock it; with
\* the last file locked the workload is spawned (Popen), and the script reads
\* none of the scan results after that.  With a second script that has the
\* file open, the order of the pids shows in what lsof prints
LockNext(i) ==
    /\ pc[i] = "lock"
    /\ LET f == loc[i].files_to_lock[Len(stack[i]) + 1]
           d == DevOf(f)
           last == Len(stack[i]) + 1 = Len(loc[i].files_to_lock)
       IN /\ stack' = [stack EXCEPT ![i] = Append(@, f)]
          /\ by_pid' \in IF by_pid = <<>> /\ Accessing(d) # {}
                          THEN PidOrders ELSE {by_pid}
          /\ IF FlockOk(i, d)
             THEN /\ held' = [held EXCEPT ![i] = @ \cup {d}]
                  /\ IF last
                     THEN /\ wl' = [wl EXCEPT ![i] = "running"]
                          /\ loc' = [loc EXCEPT ![i] = MainLocals(loc[i])]
                          /\ pc' = [pc EXCEPT ![i] = "wait"]
                     ELSE UNCHANGED <<wl, loc, pc>>
             ELSE /\ loc' = [loc EXCEPT ![i].blocking_file = FileObj(d)]
                  /\ pc' = [pc EXCEPT ![i] = "lockfail"]
                  /\ UNCHANGED <<held, wl>>
    /\ UNCHANGED <<envvars, leads, extvars, cuda, wstatus, exit_status>>

\* fault: no ExitStack, only the file whose lock failed is closed
close_last(i) ==
    /\ stack' = [stack EXCEPT ![i] = SubSeq(@, 1, Len(@) - 1)]
    /\ UNCHANGED held

\* line 126: leaving the with block closes every file of the ExitStack,
\* which drops the locks taken through them
CloseAll(i) ==
    /\ stack' = [stack EXCEPT ![i] = <<>>]
    /\ held' = [held EXCEPT ![i] = {}]

\* key in d, and del d[key], of a dict whose ordered keys are av
DictHas(av, key) == key \in Range(av)
DictDel(av, key) == Filter(av, Range(av) \ {key})

\* line 133 and lines 223-225: the ExitStack closes every file opened in this
\* call, lock_and_run returns (False, f), and try_launch deletes the returned
\* value from available_gpu_locks; a key that is not in the dict raises
\* KeyError, which nothing catches
Rollback(i) ==
    /\ pc[i] = "lockfail"
    /\ CloseAll(i)
    /\ IF DictHas(loc[i].available_gpu_locks, loc[i].blocking_file)
       THEN Decide(i, loc[i],
                   DictDel(loc[i].available_gpu_locks, loc[i].blocking_file))
       ELSE Exit(i, "error", 1) /\ UNCHANGED cuda
    /\ UNCHANGED <<envvars, by_pid, extvars, wl, wstatus>>
    /\ GroupsAfter(leads)

\* the workload process ends, by itself or after a signal, with some status,
\* which the script collects when it is still waiting
WorkloadExit(i) ==
    /\ wl[i] = "running"
    /\ wl' = [wl EXCEPT ![i] = "exited"]
    /\ \E s \in 0..1 :
         wstatus' = [wstatus EXCEPT ![i] = IF pc[i] = "wait" THEN s ELSE @]
    /\ cuda' = [cuda EXCEPT ![i] = <<>>]
    /\ UNCHANGED <<envvars, by_pid, extvars, pc, loc, filevars, exit_status>>
    /\ GroupsAfter(leads)

\* line 222: the status try_launch exits with after a successful call
SuccessStatus(returned) == 0

\* lines 144-156 and 221-222: process.wait() returns, the with block closes
\* the lock files, lock_and_run returns (True, None) and try_launch exits
Finish(i) ==
    /\ pc[i] = "wait"
    /\ wl[i] = "exited"
    /\ CloseAll(i)
    /\ Exit(i, "done", SuccessStatus(wstatus[i]))
    /\ wstatus' = [wstatus EXCEPT ![i] = -1]
    /\ UNCHANGED <<envvars, by_pid, extvars, cuda, wl>>
    /\ GroupsAfter(leads)

\* ------------------------------------------------------------ kill_process
\* lines 73-75: pgrep --pgroup pid prints the processes of the group pid,
\* zombies among them, in ascending order
get_descendent_processes(g, pid) ==
    ByPid({p \in Listed : Pgid(g, p) = pid})

\* sudo kill -15 -pid reaches every running process of group pid
Signalled(g, pid) == {p \in Pids : Alive(p) /\ Pgid(g, p) = pid}

\* lines 96-106 for the processes hit: a script that gets SIGTERM dies at
\* once (no handler is installed) and the system closes its files; a
\* workload is left to react to the signal.  The sender, when it is not
\* hit itself, goes on at position next
Terminate(hit, sender, next) ==
    /\ pc' = [j \in Inv |->
                IF InvPid(j) \in hit THEN "killed"
                ELSE IF j = sender THEN next ELSE pc[j]]
    /\ exit_status' = [j \in Inv |->
                         IF InvPid(j) \in hit THEN 128 + SIGTERM ELSE exit_status[j]]
    /\ stack' = [j \in Inv |-> IF InvPid(j) \in hit THEN <<>> ELSE stack[j]]
    /\ held' = [j \in Inv |-> IF InvPid(j) \in hit THEN {} ELSE held[j]]
    /\ wstatus' = [j \in Inv |-> IF InvPid(j) \in hit THEN -1 ELSE wstatus[j]]

\* lines 149-156: Ctrl-C reaches the script while it waits for the workload;
\* it calls kill_process(str(os.getpid())).  When the script leads its
\* process group, the signal to the group ends the script itself.  When it
\* does not, there is no group of its pid: pgrep prints nothing, the signal
\* reaches nobody, kill_process returns [] at once, lock_and_run returns
\* (True, None) through the with block and try_launch exits with 0
Interrupt(i) ==
    /\ pc[i] = "wait"
    /\ \E g \in Looked(InvPid(i)) :
        /\ IF InvPid(i) \in Signalled(g, InvPid(i))
           THEN /\ Terminate(Signalled(g, InvPid(i)), i, "killed")
                /\ loc' = [loc EXCEPT ![i] = NoLocals]
           ELSE /\ CloseAll(i)
                /\ Exit(i, "done", 0)
                /\ wstatus' = [wstatus EXCEPT ![i] = -1]
        /\ UNCHANGED <<envvars, by_pid, extvars, cuda, wl>>
        /\ GroupsAfter(g)

\* ------------------------------------------------------------ the operator
\* lines 158-164 and 270: the operator answers n
Decline(i) ==
    /\ pc[i] = "confirm"
    /\ Exit(i, "end", 0)
    /\ UNCHANGED <<envvars, by_pid, extvars, filevars, wlvars>>
    /\ GroupsAfter(leads)

\* lines 158-164, 270-271 and 98-102: the operator answers y; kill_process
\* enumerates the group of the victim with pgrep
Enumerate(i) ==
    /\ pc[i] = "confirm"
    /\ \E g \in Looked(loc[i].victim.pid) :
        /\ loc' = [loc EXCEPT ![i] =
                     [MainLocals(loc[i]) EXCEPT
                        !.victim = loc[i].victim,
                        !.to_check = get_descendent_processes(g, loc[i].victim.pid)]]
        /\ pc' = [pc EXCEPT ![i] = "signal"]
        /\ UNCHANGED <<envvars, by_pid, extvars, filevars, wlvars, exit_status>>
        /\ GroupsAfter(g)

\* line 106: sudo kill -15 -pid sends one SIGTERM to the group of the
\* victim; the list comprehension of line 107 starts, and is done at once
\* when to_check is empty
Signal(i) ==
    /\ pc[i] = "signal"
    /\ \E g \in Looked(loc[i].victim.pid) :
        LET hit == Signalled(g, loc[i].victim.pid) \ {InvPid(i)}
        IN /\ Terminate(hit, i, IF loc[i].to_check = <<>> THEN "killed_ret" ELSE "poll")
           /\ loc' = [j \in Inv |->
                        IF j = i THEN [loc[i] EXCEPT !.kills = @ + 1]
                        ELSE IF InvPid(j) \in hit THEN NoLocals ELSE loc[j]]
           /\ UNCHANGED <<envvars, by_pid, extvars, cuda, wl>>
           /\ GroupsAfter(g)

\* lines 107 and 110: one round of [p for p in to_check if
\* process_is_running(p)]
StillRunning(i, list, p) ==
    IF process_is_running(InvPid(i), p) THEN Append(list, p) ELSE list

\* lines 107-112: one kill -0 of the list comprehension.  With the last pid
\* of to_check probed, still_running is assigned; the loop test of line 108
\* follows: after a second of sleep the next comprehension starts, or
\* kill_process returns still_running
Poll(i) ==
    /\ pc[i] = "poll"
    /\ LET p == loc[i].to_check[loc[i].probed + 1]
           list == StillRunning(i, loc[i].running, p)
       IN IF loc[i].probed + 1 < Len(loc[i].to_check)
          THEN /\ loc' = [loc EXCEPT ![i].probed = @ + 1, ![i].running = list]
               /\ UNCHANGED pc
          ELSE IF list # <<>> /\ loc[i].wait_time < MaxWait
          THEN /\ loc' = [loc EXCEPT ![i].probed = 0, ![i].running = <<>>,
                                     ![i].still_running = list,
                                     ![i].wait_time = @ + 1]
               /\ UNCHANGED pc
          ELSE /\ loc' = [loc EXCEPT ![i].probed = 0, ![i].running = <<>>,
                                     ![i].still_running = list]
               /\ pc' = [pc EXCEPT ![i] = "killed_ret"]
    /\ UNCHANGED <<envvars, by_pid, leads, extvars, filevars, wlvars, exit_status>>

\* fault: the result of kill_process is not looked at
relaunch_always(still_running) == TRUE

\* line 272: if not still_running
relaunches(still_running) == still_running = <<>>

\* lines 272-281: main launches again when kill_process returned an empty
\* list, and otherwise reports the pids and ends
AfterKill(i) ==
    /\ pc[i] = "killed_ret"
    /\ IF relaunches(loc[i].still_running)
       THEN /\ loc' = [loc EXCEPT ![i] =
                          [MainLocals(loc[i]) EXCEPT !.calls = @ + 1]]
            /\ pc' = [pc EXCEPT ![i] = "scan"]
            /\ UNCHANGED exit_status
       ELSE Exit(i, "end", 0)
    /\ UNCHANGED <<envvars, by_pid, extvars, filevars, wlvars>>
    /\ GroupsAfter(leads)

\* ---------------------------------------------------------- specification
\* the steps of a script up to the start of its workload
LaunchSteps ==
    \/ \E i \in Inv : SnapshotGpu(i)
    \/ \E i \in Inv : SnapshotUsers(i)
    \/ \E i \in Inv : SnapshotStarts(i)
    \/ \E i \in Inv : ClassifyDevice(i)
    \/ \E i \in Inv : LockNext(i)
    \/ \E i \in Inv : Rollback(i)

\* the steps of a preemption
PreemptSteps ==
    \/ \E i \in Inv : Decline(i)
    \/ \E i \in Inv : Enumerate(i)
    \/ \E i \in Inv : Signal(i)
    \/ \E i \in Inv : Poll(i)
    \/ \E i \in Inv : AfterKill(i)

\* the ways a workload and the script that waits for it end
EndSteps ==
    \/ \E i \in Inv : WorkloadExit(i)
    \/ \E i \in Inv : Finish(i)
    \/ \E i \in Inv : Interrupt(i)

\* two invocations next to an unscheduled GPU process
Next ==
    \/ \E e \in Ext : ExtStart(e)
    \/ \E e \in Ext : ExtExit(e)
    \/ \E i \in Pair : Start(i)
    \/ LaunchSteps
    \/ PreemptSteps
    \/ EndSteps

Spec == Init /\ [][Next]_vars

\* two invocations that each ask for one device, the first one run by root
NextRoot ==
    \/ \E e \in Ext : ExtStart(e)
    \/ \E e \in Ext : ExtExit(e)
    \/ \E i \in Pair : StartSingle(i)
    \/ LaunchSteps
    \/ PreemptSteps
    \/ EndSteps

SpecRoot == InitRoot /\ [][NextRoot]_vars

\* three invocations that each ask for one standard device, the one of
\* alice after the scans of the others, next to an unscheduled GPU process
\* on the large-memory device; the workloads and the unscheduled process
\* run on, and nobody interrupts a script
NextThree ==
    \/ \E e \in Ext : ExtStartLarge(e)
    \/ \E i \in Inv \ {1} : StartOne(i)
    \/ StartLate(1)
    \/ LaunchSteps
    \/ PreemptSteps

SpecThree == Init /\ [][NextThree]_vars

\* ------------------------------------------------------------- properties
\* invocation i takes the step that ends the round of the loop of
\* try_launch for device d
Round(i, d) ==
    /\ pc[i] = "classify"
    /\ loc[i].gpu = d
    /\ \/ pc'[i] \notin {"classify", "killed"}
       \/ pc'[i] = "classify" /\ loc'[i].gpu = d + 1

\* C1 (exclusive reservation): no device is locked by two invocations at the
\* same time, and an invocation that has spawned its workload holds the locks
\* of exactly the num_gpus devices it handed over in CUDA_VISIBLE_DEVICES,
\* none of which another invocation holds.
C1_ExclusiveReservation ==
    /\ \A d \in Devices : Cardinality({i \in Inv : d \in held[i]}) <= 1
    /\ \A i \in Inv :
         (pc[i] = "wait" /\ wl[i] = "running") =>
            /\ held[i] = Range(cuda[i])
            /\ Len(cuda[i]) = loc[i].num_gpus
            /\ Cardinality(held[i]) = loc[i].num_gpus
            /\ \A j \in Inv \ {i} : held[j] \cap Range(cuda[i]) = {}

\* two workloads run at once, one of them on two devices
C1_Witness ==
    \E i \in Inv, j \in Inv :
        /\ i # j
        /\ pc[i] = "wait" /\ wl[i] = "running"
        /\ pc[j] = "wait" /\ wl[j] = "running"
        /\ Cardinality(held[i]) = 2
        /\ held[j] # {}

\* C2 (all or nothing): when a call of lock_and_run that failed to lock a
\* file returns, the caller holds no lock and has no lock file open, the
\* files it had locked in that call are locked by nobody, so that another
\* process can lock them at once, and no workload was spawned.
C2_AllOrNothing ==
    [][\A i \in Inv :
         (pc[i] = "lockfail" /\ pc'[i] # "lockfail") =>
            /\ held'[i] = {}
            /\ stack'[i] = <<>>
            /\ wl'[i] = "none"
            /\ \A d \in held[i] : \A k \in Inv : d \notin held'[k]]_vars

\* the lock of the second file failed with the first one locked
C2_Witness ==
    \E i \in Inv :
        /\ pc[i] = "lockfail"
        /\ Len(stack[i]) = 2
        /\ Cardinality(held[i]) = 1
        /\ DevOf(loc[i].blocking_file) \notin held[i]

\* C3 (race recovery): after a lost race the launcher drops the device that
\* blocked from its free set and tries again with the rest: it never ends
\* with an error, goes on locking when enough devices are left, and
\* otherwise returns to main as exhausted.
C3_RaceRecovery ==
    [][\A i \in Inv :
         (pc[i] = "lockfail" /\ pc'[i] \notin {"lockfail", "killed"}) =>
            LET rest == DictDel(loc[i].available_gpu_locks,
                                Fn(DevOf(loc[i].blocking_file)))
            IN /\ pc'[i] # "error"
               /\ IF Len(rest) >= loc[i].num_gpus
                  THEN /\ pc'[i] = "lock"
                       /\ loc'[i].available_gpu_locks = rest
                  ELSE pc'[i] \in {"confirm", "end"}]_vars

\* C4 (free devices are used): an invocation whose scan found enough free
\* devices of its class stays in the acquisition loop until it runs its
\* workload; it never ends without a run and never enters the preemption
\* policy (unless a signal from outside ends it).
C4_EnoughFreeRuns ==
    [][\A i \in Inv :
         pc[i] \in {"lock", "lockfail"} =>
            pc'[i] \in {"lock", "lockfail", "wait", "killed"}]_vars

\* C5 (exit status): when the workload has exited and the script ends, the
\* script releases its locks and ends with the workload's exit status.
C5_ExitStatus ==
    [][\A i \in Inv :
         (pc[i] = "wait" /\ wl[i] = "exited" /\ pc'[i] = "done") =>
            /\ held'[i] = {}
            /\ exit_status'[i] = wstatus[i]]_vars

\* C6 (orphans are not free): a device on which the nvidia-smi snapshot of a
\* scan shows a process while nobody has its lock file open when the loop
\* asks for its lock holder is not put into the free set of that scan, and
\* is not handed to the workload by it.  No other round of the loop puts the
\* device into the free set, and the files to lock and the devices of
\* CUDA_VISIBLE_DEVICES are taken from the free set only.
C6_OrphanNotFree ==
    [][\A i \in Inv :
         /\ \A d \in Devices :
               (/\ Round(i, d)
                /\ Len(loc[i].gpu_processes[d]) > 0
                /\ Accessing(d) = {}) =>
                  /\ Fn(d) \notin Range(loc'[i].available_gpu_locks)
                  /\ Fn(d) \notin Range(loc'[i].files_to_lock)
                  /\ pc'[i] = "lock" => d \notin Range(cuda'[i])
         /\ pc[i] = "classify" =>
               Range(loc'[i].available_gpu_locks)
                  \subseteq Range(loc[i].available_gpu_locks) \cup {Fn(loc[i].gpu)}
         /\ (pc[i] # "lock" /\ pc'[i] = "lock") =>
               /\ Range(loc'[i].files_to_lock)
                     \subseteq Range(loc'[i].available_gpu_locks)
               /\ Range(cuda'[i]) = {DevOf(f) : f \in Range(loc'[i].files_to_lock)}]_vars

\* a scan has recorded an unscheduled process as the occupant of a device of
\* the class asked for, left that device out of its free set, and goes on to
\* lock another one
C6_Witness ==
    \E i \in Inv, d \in Devices, e \in Ext :
        /\ pc[i] = "lock"
        /\ can_run(i, d)
        /\ Fn(d) \notin Range(loc[i].available_gpu_locks)
        /\ \E k \in 1..Len(loc[i].reserved) :
              /\ loc[i].reserved[k].pid = EPid(e)
              /\ loc[i].reserved[k].gpu_index = d

\* C7 (the reservation covers the workload): as long as the workload of an
\* invocation runs, the invocation holds the locks of all devices it gave
\* to the workload, on every way out of the script.
C7_LocksCoverWorkload ==
    \A i \in Inv : wl[i] = "running" => Range(cuda[i]) \subseteq held[i]

\* C8 (preemption is gated): a signal goes to a victim only after the prompt
\* of a privileged caller that asked for one device and holds nothing after
\* its first launch attempt; a request for two or more devices that finds
\* too few free ends with no kill and no reservation; a declined prompt ends
\* the invocation with no kill and no further launch attempt.
C8_PreemptionGated ==
    [][\A i \in Inv :
         /\ loc'[i].kills > loc[i].kills =>
               /\ pc[i] = "signal"
               /\ user[InvPid(i)] \in privileged_users
               /\ loc[i].num_gpus = 1
               /\ loc[i].calls = 1
               /\ held[i] = {} /\ wl[i] = "none"
         /\ (pc[i] # "signal" /\ pc'[i] = "signal") =>
               pc[i] = "confirm" /\ loc[i].prompts = 1
         /\ (\E j \in Inv \ {i} : pc[j] \notin {"wait", "killed"} /\ pc'[j] = "killed")
               => \E k \in Inv : loc'[k].kills > loc[k].kills
         /\ (/\ pc[i] = "classify" /\ pc'[i] \notin {"classify", "killed"}
             /\ loc[i].num_gpus >= 2) =>
               /\ pc'[i] = "lock" =>
                     Len(loc'[i].available_gpu_locks) >= loc[i].num_gpus
               /\ pc'[i] # "lock" =>
                     /\ pc'[i] \in {"end", "error"}
                     /\ held'[i] = {} /\ wl'[i] = "none"
                     /\ \A j \in Inv : pc'[j] = "killed" => pc[j] = "killed"
         /\ (pc[i] = "confirm" /\ pc'[i] = "end") =>
               /\ held'[i] = {} /\ wl'[i] = "none"
               /\ \A j \in Inv : pc'[j] = "killed" => pc[j] = "killed"]_vars

\* a privileged caller has sent the signal and probes the victim's group
C8_Witness ==
    \E i \in Inv :
        /\ pc[i] = "poll"
        /\ loc[i].kills = 1
        /\ loc[i].victim.pid # None

\* C9 (quota): the group of the proposed victim is larger than its owner's
\* quota (1 for a privileged owner, 0 for the others) and has a preemption
\* candidate; so a privileged owner with one reservation is never proposed.
C9_QuotaProtected ==
    \A i \in Inv :
        pc[i] = "confirm" =>
            LET u == loc[i].victim.user
                res == loc[i].reserved
                g == {k \in 1..Len(res) : res[k].user = u}
            IN /\ Cardinality(g) > (IF u \in privileged_users THEN 1 ELSE 0)
               /\ \E k \in g : res[k].preemption_candidate

\* the victim proposed belongs to a privileged owner with two reservations
C9_Witness ==
    \E i \in Inv :
        /\ pc[i] = "confirm"
        /\ loc[i].victim.user \in privileged_users
        /\ Cardinality({k \in 1..Len(loc[i].reserved) :
                          loc[i].reserved[k].user = loc[i].victim.user}) = 2

\* C10 (the newest candidate): the proposed victim is an occupant found by
\* the scan, is a preemption candidate, and no candidate of its group has a
\* later start time.
C10_NewestCandidate ==
    \A i \in Inv :
        pc[i] = "confirm" =>
            LET v == loc[i].victim
                res == loc[i].reserved
            IN /\ v \in Range(res)
               /\ v.preemption_candidate
               /\ \A k \in 1..Len(res) :
                     (res[k].user = v.user /\ res[k].preemption_candidate)
                        => res[k].start_time <= v.start_time

\* the group of the victim has an occupant that is newer than the victim but
\* is no candidate
C10_Witness ==
    \E i \in Inv :
        /\ pc[i] = "confirm"
        /\ \E k \in 1..Len(loc[i].reserved) :
              /\ loc[i].reserved[k].user = loc[i].victim.user
              /\ ~loc[i].reserved[k].preemption_candidate
              /\ loc[i].reserved[k].start_time > loc[i].victim.start_time

\* C11 (result of kill_process): the list kill_process returns holds only
\* enumerated pids and drops none that runs: every enumerated process that
\* runs when kill_process returns is in the list, so that the empty list is
\* returned only when none of them runs; a non-empty list is only returned
\* after max_wait_time polls.
C11_TerminationResult ==
    [][\A i \in Inv :
         (pc[i] \in {"signal", "poll"} /\ pc'[i] = "killed_ret") =>
            LET ret == loc'[i].still_running
            IN /\ Range(ret) \subseteq Range(loc[i].to_check)
               /\ \A p \in Range(loc[i].to_check) : Alive(p) => p \in Range(ret)
               /\ ret # <<>> => loc[i].wait_time = MaxWait]_vars

\* C12 as stated (other classes are left out): every device in the free set
\* and every occupant in the reserved set of a scan is on a device of the
\* class the caller asked for.
C12_OtherClassExcluded ==
    \A i \in Inv :
        pc[i] \in {"lock", "lockfail", "confirm"} =>
            /\ \A f \in Range(loc[i].available_gpu_locks) :
                  loc[i].large_mem <=> Has8000(gpu_name(DevOf(f)))
            /\ \A k \in 1..Len(loc[i].reserved) :
                  loc[i].large_mem <=> Has8000(gpu_name(loc[i].reserved[k].gpu_index))

\* C12 as amended (other classes are flagged): a device of the other class is
\* never in the free set and never the device of the proposed victim; its
\* occupant is in the reserved set, flagged as no preemption candidate, and
\* the flag is set exactly for the occupants on devices of the class asked
\* for.
C12_OtherClassFlagged ==
    \A i \in Inv :
        pc[i] \in {"classify", "lock", "lockfail", "confirm"} =>
            /\ \A f \in Range(loc[i].available_gpu_locks) :
                  loc[i].large_mem <=> Has8000(gpu_name(DevOf(f)))
            /\ \A k \in 1..Len(loc[i].reserved) :
                  loc[i].reserved[k].preemption_candidate <=>
                     (loc[i].large_mem <=> Has8000(gpu_name(loc[i].reserved[k].gpu_index)))
            /\ pc[i] = "confirm" =>
                  (loc[i].large_mem <=> Has8000(gpu_name(loc[i].victim.gpu_index)))

\* a privileged owner is proposed for preemption with one occupant on a device
\* of the class asked for and one on a device of the other class: the second
\* one lifts the group over the quota
C12_Witness ==
    \E i \in Inv :
        /\ pc[i] = "confirm"
        /\ loc[i].victim.user \in privileged_users
        /\ Len(ProcsOf(loc[i].reserved, loc[i].victim.user)) = 2
        /\ \E k \in 1..Len(loc[i].reserved) :
              /\ loc[i].reserved[k].user = loc[i].victim.user
              /\ ~loc[i].reserved[k].preemption_candidate
              /\ loc[i].large_mem # Has8000(gpu_name(loc[i].reserved[k].gpu_index))

\* C13 (own reservation): a privileged caller that asked for one device,
\* found none free and faces a group that qualifies for preemption is led to
\* the proposal of a victim exactly when the scan has recorded no lock
\* holder of the caller's user on a device of the class asked for; occupants
\* of the caller's user on other devices, or without a lock, do not count.
C13_OwnReservation ==
    [][\A i \in Inv :
         LET caller == user[InvPid(i)]
             res == IF UsedBy(i, NumDev) = None THEN loc[i].reserved
                    ELSE Append(loc[i].reserved,
                                ProcInfo(i, NumDev, loc[i].all_start_times))
             own_usable == {k \in 1..Len(res) :
                              /\ res[k].user = caller
                              /\ res[k].preemption_candidate
                              /\ res[k].pid \in Inv}
         IN (/\ Round(i, NumDev) /\ pc'[i] \in {"confirm", "end"}
             /\ loc[i].calls = 1
             /\ loc[i].num_gpus = 1
             /\ caller \in privileged_users
             /\ \E u \in Users : Qualifies(res, u)) =>
               (pc'[i] = "confirm" <=> own_usable = {})]_vars

\* C14 (largest qualifying group first): whatever the shuffle, the group of
\* the proposed victim qualifies (it is larger than its quota and has a
\* preemption candidate) and no qualifying group of the scan is larger.
C14_LargestQualifying ==
    \A i \in Inv :
        pc[i] = "confirm" =>
            LET res == loc[i].reserved
                size(u) == Cardinality({k \in 1..Len(res) : res[k].user = u})
                quota(u) == IF u \in privileged_users THEN 1 ELSE 0
                qualifies(u) ==
                    /\ size(u) > quota(u)
                    /\ \E k \in 1..Len(res) :
                          res[k].user = u /\ res[k].preemption_candidate
            IN /\ qualifies(loc[i].victim.user)
               /\ \A u \in Users :
                     qualifies(u) => size(u) <= size(loc[i].victim.user)

\* two groups qualify, and the victim is of the larger one
C14_Witness ==
    \E i \in Inv :
        /\ pc[i] = "confirm"
        /\ LET res == loc[i].reserved
               size(u) == Cardinality({k \in 1..Len(res) : res[k].user = u})
           IN \E u \in Users \ {loc[i].victim.user} :
                 /\ Qualifies(res, u)
                 /\ size(u) < size(loc[i].victim.user)

\* C15 (one preemption per invocation): an invocation shows at most one
\* confirmation prompt and sends at most one signal to a victim; after its
\* signal it shows no prompt and sends no signal again, also when the launch
\* attempt after the kill finds nothing free.
C15_OnePreemption ==
    [][\A i \in Inv :
         /\ loc'[i].prompts <= 1
         /\ loc'[i].kills <= 1
         /\ loc[i].kills = 1 =>
               /\ pc'[i] \notin {"confirm", "signal"}
               /\ loc'[i].kills <= loc[i].kills
               /\ loc'[i].prompts <= loc[i].prompts]_vars

\* the launch attempt after a kill is about to find nothing free again
C15_Witness ==
    \E i \in Inv :
        /\ pc[i] = "classify"
        /\ loc[i].gpu = NumDev
        /\ loc[i].calls = 2
        /\ loc[i].kills = 1
        /\ loc[i].available_gpu_locks = <<>>
        /\ ~ScanKeyError(i, NumDev)
        /\ ~IsAvailable(i, NumDev)

\* C16 (launch again only after a full kill): when kill_process has returned,
\* main enters try_launch again, with a fresh scan, exactly when the returned
\* list is empty; otherwise the invocation ends, holding no lock and having
\* run nothing; and try_launch is entered a second time in no other way.
C16_RelaunchIffEmpty ==
    [][\A i \in Inv :
         /\ (pc[i] = "killed_ret" /\ pc'[i] # "killed_ret") =>
               IF loc[i].still_running = <<>>
               THEN /\ pc'[i] = "scan"
                    /\ loc'[i].calls = loc[i].calls + 1
                    /\ loc'[i].reserved = <<>>
                    /\ loc'[i].available_gpu_locks = <<>>
                    /\ loc'[i].process_users = <<>>
               ELSE /\ pc'[i] = "end"
                    /\ held'[i] = {} /\ stack'[i] = <<>>
                    /\ wl'[i] = "none"
         /\ (loc[i].calls >= 1 /\ loc'[i].calls > loc[i].calls) =>
               (pc[i] = "killed_ret" /\ loc[i].still_running = <<>>)]_vars

\* kill_process has returned the pids that survived the wait
C16_Witness ==
    \E i \in Inv :
        /\ pc[i] = "killed_ret"
        /\ loc[i].still_running # <<>>
        /\ loc[i].wait_time = MaxWait

\* C17 (quota at kill time): in the step in which the signal of an
\* invocation ends the script of its victim, the devices held or used at
\* that moment by processes of the victim's owner are more than the owner's
\* quota (1 for a privileged owner, 0 for the others).
C17_QuotaAtKill ==
    [][\A i \in Inv :
         (/\ loc'[i].kills > loc[i].kills
          /\ loc[i].victim.pid \in Inv
          /\ pc'[loc[i].victim.pid] = "killed"
          /\ pc[loc[i].victim.pid] # "killed") =>
            LET u == loc[i].victim.user
                now == {d \in Devices :
                          \/ \E j \in Inv : d \in held[j] /\ user[InvPid(j)] = u
                          \/ \E p \in GpuPids(d) : user[p] = u}
            IN Cardinality(now) > (IF u \in privileged_users THEN 1 ELSE 0)]_vars

\* C18 (scan and starting processes): every running process that the
\* lock-holder query or the device-usage list yields as the occupant of a
\* device in the loop of a scan is in the owner snapshot and in the start
\* time snapshot of that scan, so that no lookup fails for a process that
\* started in the meantime.
C18_ScanRobust ==
    [][\A i \in Inv : \A d \in Devices :
         (Round(i, d) /\ UsedBy(i, d) # None /\ Alive(UsedBy(i, d))) =>
            /\ UsedBy(i, d) \in DOMAIN loc[i].process_users
            /\ UsedBy(i, d) \in DOMAIN loc[i].all_start_times]_vars

\* C19 (only holders are occupants): the occupant a scan records for a
\* device whose lock is held when the loop asks for its lock holder is the
\* invocation that holds the lock, not one that has only opened the lock
\* file.
C19_HolderRecorded ==
    [][\A i \in Inv : \A d \in Devices : \A j \in Inv :
         (/\ Round(i, d) /\ d \in held[j]
          /\ Len(loc'[i].reserved) > 0) =>
            LET rec == loc'[i].reserved[Len(loc'[i].reserved)]
            IN rec.gpu_index = d => rec.pid = InvPid(j)]_vars

\* C20 (full success means the victim is gone): when kill_process returns the
\* empty list, and so when main launches again after a preemption, the
\* victim process itself is no longer running, whether or not it leads its
\* process group.
C20_VictimGone ==
    [][\A i \in Inv :
         /\ (pc[i] \in {"signal", "poll"} /\ pc'[i] = "killed_ret"
             /\ loc'[i].still_running = <<>>) =>
               ~Alive(loc[i].victim.pid)
         /\ (pc[i] = "killed_ret" /\ pc'[i] = "scan") =>
               loc[i].still_running = <<>>]_vars

====
